---- MODULE Spec2Model ----
(***************************************************************************)
(* Model of mcp_datetimeday/server.py: the five tools get_datetime,        *)
(* relative_time, days_in_month, convert_time and get_week_year, together  *)
(* with the parts of datetime, calendar and zoneinfo they call.            *)
(*                                                                         *)
(* The server holds no state between calls.  The model's state is one      *)
(* request at a time: the tool being called with its arguments, the clock  *)
(* reading the handler took (if any) and the mapping it returned.          *)
(*                                                                         *)
(* Representation:                                                         *)
(*   - a date/time text is a record [shape, y, mo, d, H, M, S]: the shape  *)
(*     says which separators the text has ("date" = YYYY-MM-DD, "T" =      *)
(*     YYYY-MM-DDTHH:MM:SS, "space" = YYYY-MM-DD HH:MM:SS, "garbage" = a   *)
(*     text no format matches, "empty" = the empty string) and the fields  *)
(*     are the numbers its digit groups spell;                             *)
(*   - a datetime is a record [year, month, day, hour, minute, second,     *)
(*     microsecond, tzinfo, fold];                                         *)
(*   - a timedelta is the normalised triple [days, seconds, microseconds]  *)
(*     that Python keeps (0 <= seconds < 86400, 0 <= microseconds < 10^6); *)
(*   - a float number of seconds is sign and magnitude [neg, sec, us];     *)
(*   - a result is a record: a success mapping, the error mapping          *)
(*     [error |-> ...] or, for an exception that leaves the handler,       *)
(*     [fault |-> <exception name>].                                       *)
(***************************************************************************)
EXTENDS Integers, Sequences, FiniteSets, TLC

VARIABLES pc, call, clock, result

vars == <<pc, call, clock, result>>

(***************************************************************************)
(* Bounds of the model: the years the date texts range over.               *)
(***************************************************************************)
FirstYear == 2024
LastYear == 2026

\* An optional argument or value is a set with at most one element.
None == {}
Some(v) == {v}
the(opt) == CHOOSE v \in opt : TRUE

(***************************************************************************)
(* datetime / calendar library                                             *)
(***************************************************************************)
MINYEAR == 1
MAXYEAR == 9999
SecondsPerDay == 86400
MicrosPerSecond == 1000000

\* calendar.isleap / datetime._is_leap
isleap(year) == year % 4 = 0 /\ (year % 100 # 0 \/ year % 400 = 0)

mdays == <<31, 28, 31, 30, 31, 30, 31, 31, 30, 31, 30, 31>>

\* datetime._days_in_month and the second component of calendar.monthrange
monthrange_days(year, month) ==
    mdays[month] + (IF month = 2 /\ isleap(year) THEN 1 ELSE 0)

\* datetime._days_before_year: days before January 1st of year
days_before_year(year) ==
    LET y == year - 1
    IN  y * 365 + (y \div 4) - (y \div 100) + (y \div 400)

RECURSIVE days_before_month(_, _)
days_before_month(year, month) ==
    IF month = 1 THEN 0
    ELSE days_before_month(year, month - 1) + monthrange_days(year, month - 1)

\* datetime._ymd2ord: 0001-01-01 is day 1
ymd2ord(year, month, day) ==
    days_before_year(year) + days_before_month(year, month) + day

toordinal(dt) == ymd2ord(dt.year, dt.month, dt.day)

year_length(year) == IF isleap(year) THEN 366 ELSE 365

\* datetime._ord2ymd, as the year and the 1-based day of the year holding
\* ordinal n; the caller keeps n within MINYEAR..MAXYEAR
RECURSIVE ord2year(_, _)
ord2year(n, guess) ==
    IF n <= days_before_year(guess) THEN ord2year(n, guess - 1)
    ELSE IF n > days_before_year(guess) + year_length(guess) THEN ord2year(n, guess + 1)
    ELSE guess

RECURSIVE yday2month(_, _, _)
yday2month(year, yday, month) ==
    IF yday <= days_before_month(year, month) + monthrange_days(year, month)
    THEN month
    ELSE yday2month(year, yday, month + 1)

MaxOrdinal == ymd2ord(MAXYEAR, 12, 31)

\* constructor datetime(year, month, day, ...): the fields are range-checked
valid_date(year, month, day) ==
    /\ MINYEAR <= year /\ year <= MAXYEAR
    /\ 1 <= month /\ month <= 12
    /\ 1 <= day /\ day <= monthrange_days(year, month)

valid_time(hour, minute, second) ==
    /\ 0 <= hour /\ hour <= 23
    /\ 0 <= minute /\ minute <= 59
    /\ 0 <= second /\ second <= 59

datetime(year, month, day, hour, minute, second, microsecond, tzinfo, fold) ==
    [year |-> year, month |-> month, day |-> day,
     hour |-> hour, minute |-> minute, second |-> second,
     microsecond |-> microsecond, tzinfo |-> tzinfo, fold |-> fold]

\* seconds since midnight of the wall-clock fields
sec_of_day(dt) == dt.hour * 3600 + dt.minute * 60 + dt.second

\* timedelta(days, seconds, microseconds), normalised as the constructor does
timedelta(days, seconds, microseconds) ==
    LET us == microseconds % MicrosPerSecond
        s1 == seconds + ((microseconds - us) \div MicrosPerSecond)
        s  == s1 % SecondsPerDay
        d  == days + ((s1 - s) \div SecondsPerDay)
    IN  [days |-> d, seconds |-> s, microseconds |-> us]

\* datetime.__sub__ for two datetimes of one kind (both naive)
dt_sub(a, b) ==
    timedelta(toordinal(a) - toordinal(b),
              sec_of_day(a) - sec_of_day(b),
              a.microsecond - b.microsecond)

\* timedelta.total_seconds() as a float, kept as sign and magnitude
total_seconds_of(delta) ==
    LET t == delta.days * SecondsPerDay + delta.seconds
    IN  IF delta.days >= 0
        THEN [neg |-> FALSE, sec |-> t, us |-> delta.microseconds]
        ELSE IF delta.microseconds = 0
             THEN [neg |-> TRUE, sec |-> 0 - t, us |-> 0]
             ELSE [neg |-> TRUE, sec |-> (0 - t) - 1,
                   us |-> MicrosPerSecond - delta.microseconds]

\* date.weekday(): Monday is 0
weekday(dt) == (toordinal(dt) + 6) % 7

\* date.isoweekday(): Monday is 1, Sunday is 7
isoweekday(dt) == IF toordinal(dt) % 7 = 0 THEN 7 ELSE toordinal(dt) % 7

DayNames == <<"Monday", "Tuesday", "Wednesday", "Thursday", "Friday",
              "Saturday", "Sunday">>

MonthNames == <<"January", "February", "March", "April", "May", "June", "July",
                "August", "September", "October", "November", "December">>

\* strftime("%A")
strftime_A(dt) == DayNames[weekday(dt) + 1]

\* strftime("%B")
strftime_B(dt) == MonthNames[dt.month]

\* strftime("%Y-%m-%d"): the text keeps the date fields only
strftime_date(dt) ==
    [shape |-> "date", y |-> dt.year, mo |-> dt.month, d |-> dt.day,
     H |-> 0, M |-> 0, S |-> 0]

\* strftime("%Y-%m-%d %H:%M:%S"): microsecond, tzinfo and fold are not printed
strftime_datetime(dt) ==
    [shape |-> "space", y |-> dt.year, mo |-> dt.month, d |-> dt.day,
     H |-> dt.hour, M |-> dt.minute, S |-> dt.second]

\* timetuple().tm_yday
tm_yday(dt) == days_before_month(dt.year, dt.month) + dt.day

(***************************************************************************)
(* datetime.strptime                                                       *)
(***************************************************************************)
\* the separators a format string asks for
format_shape(fmt) ==
    CASE fmt = "%Y-%m-%d" -> "date"
      [] fmt = "%Y-%m-%dT%H:%M:%S" -> "T"
      [] fmt = "%Y-%m-%d %H:%M:%S" -> "space"

\* datetime.strptime(text, fmt): the whole text must match the format and the
\* fields must make a date and a time; the result is naive, or None for the
\* ValueError that every caller catches
strptime(text, fmt) ==
    IF /\ text.shape = format_shape(fmt)
       /\ valid_date(text.y, text.mo, text.d)
       /\ valid_time(text.H, text.M, text.S)
    THEN Some(datetime(text.y, text.mo, text.d, text.H, text.M, text.S,
                       0, "naive", 0))
    ELSE None

\* for fmt in formats: try strptime ... break / except ValueError: continue
RECURSIVE parse_formats(_, _, _)
parse_formats(text, formats, i) ==
    IF i > Len(formats) THEN None
    ELSE IF strptime(text, formats[i]) # None THEN strptime(text, formats[i])
    ELSE parse_formats(text, formats, i + 1)

\* Python truth value of an optional text, integer or string argument
truthy_text(opt) == opt # None /\ the(opt).shape # "empty"
truthy_int(opt) == opt # None /\ the(opt) # 0
truthy_str(opt) == opt # None /\ the(opt) # ""

(***************************************************************************)
(* zoneinfo: the zones of the model.  Each has a standard offset and, when *)
(* it observes daylight saving, the rule of its POSIX TZ string            *)
(* Mm.w.0/time: month, week of the month (5 = last), Sunday, and the local *)
(* wall-clock second of the day at which the change happens.               *)
(***************************************************************************)
ZoneNames == {"Asia/Tokyo", "America/New_York", "Europe/London"}

ZoneTable(key) ==
    CASE key = "Asia/Tokyo" -> [std |-> 9 * 3600, dst |-> FALSE]
      [] key = "America/New_York" ->
          [std |-> 0 - 5 * 3600, dst |-> TRUE,
           start |-> [month |-> 3, week |-> 2, time |-> 2 * 3600],
           end   |-> [month |-> 11, week |-> 1, time |-> 2 * 3600]]
      [] key = "Europe/London" ->
          [std |-> 0, dst |-> TRUE,
           start |-> [month |-> 3, week |-> 5, time |-> 1 * 3600],
           end   |-> [month |-> 10, week |-> 5, time |-> 2 * 3600]]

DstSave == 3600

\* ZoneInfo(key): the key is found, or ZoneInfoNotFoundError / ValueError
zone_found(key) == key \in ZoneNames

\* ZoneInfo(tz) if tz != "UTC" else timezone.utc; None when ZoneInfo raises
resolve_zone(tz) ==
    IF tz = "UTC" THEN Some("UTC")
    ELSE IF zone_found(tz) THEN Some(tz)
    ELSE None

\* day of the month of the week-th Sunday of a month (week 5 = the last one)
RECURSIVE last_at_most(_, _)
last_at_most(day, limit) ==
    IF day > limit THEN last_at_most(day - 7, limit) ELSE day

rule_day(year, rule) ==
    LET wd    == (ymd2ord(year, rule.month, 1) + 6) % 7
        first == 1 + ((6 - wd) % 7)
    IN  last_at_most(first + 7 * (rule.week - 1), monthrange_days(year, rule.month))

\* second of the year, on the wall clock in force before the change, at which
\* the rule's change happens
rule_wall(year, rule) ==
    (days_before_month(year, rule.month) + rule_day(year, rule) - 1) * SecondsPerDay
    + rule.time

\* second of the year of a datetime's wall-clock fields
wall_soy(dt) == (tm_yday(dt) - 1) * SecondsPerDay + sec_of_day(dt)

\* utcoffset with daylight saving time lasting through the instant of the
\* change back, not up to it
utcoffset_through_change(dt) ==
    IF dt.tzinfo = "UTC" THEN 0
    ELSE LET z == ZoneTable(dt.tzinfo)
         IN  IF ~z.dst THEN z.std
             ELSE LET w       == wall_soy(dt)
                      gap0    == rule_wall(dt.year, z.start)
                      fall    == rule_wall(dt.year, z.end)
                      isdst   == IF dt.fold = 0
                                 THEN gap0 + DstSave <= w /\ w <= fall
                                 ELSE gap0 <= w /\ w <= fall - DstSave
                  IN  IF isdst THEN z.std + DstSave ELSE z.std

\* tzinfo.utcoffset(dt), in seconds, from dt's wall-clock fields and fold.  In
\* a gap or an overlap fold = 0 takes the offset in force before the change
\* and fold = 1 the offset in force after it.
utcoffset(dt) ==
    IF dt.tzinfo = "UTC" THEN 0
    ELSE LET z == ZoneTable(dt.tzinfo)
         IN  IF ~z.dst THEN z.std
             ELSE LET w       == wall_soy(dt)
                      gap0    == rule_wall(dt.year, z.start)
                      fall    == rule_wall(dt.year, z.end)
                      isdst   == IF dt.fold = 0
                                 THEN gap0 + DstSave <= w /\ w < fall
                                 ELSE gap0 <= w /\ w < fall - DstSave
                  IN  IF isdst THEN z.std + DstSave ELSE z.std

\* datetime + timedelta(seconds = s) keeping tzinfo; None for OverflowError
\* ("date value out of range")
dt_add_seconds(dt, s) ==
    LET delta == timedelta(toordinal(dt), sec_of_day(dt) + s, dt.microsecond)
    IN  IF 0 < delta.days /\ delta.days <= MaxOrdinal
        THEN LET year  == ord2year(delta.days, dt.year)
                 yday  == delta.days - days_before_year(year)
                 month == yday2month(year, yday, 1)
             IN  Some(datetime(year, month, yday - days_before_month(year, month),
                               delta.seconds \div 3600,
                               (delta.seconds % 3600) \div 60,
                               delta.seconds % 60,
                               delta.microseconds, dt.tzinfo, 0))
        ELSE None

\* fromutc that never sets the fold
fromutc_without_fold(tz, dt) ==
    IF tz = "UTC" THEN Some([dt EXCEPT !.tzinfo = "UTC"])
    ELSE LET z == ZoneTable(tz)
         IN  IF ~z.dst
             THEN LET r == dt_add_seconds(dt, z.std)
                  IN  IF r = None THEN None
                      ELSE Some([the(r) EXCEPT !.tzinfo = tz])
             ELSE LET u     == wall_soy(dt)
                      ts    == rule_wall(dt.year, z.start) - z.std
                      te    == rule_wall(dt.year, z.end) - (z.std + DstSave)
                      isdst == ts <= u /\ u < te
                      off   == IF isdst THEN z.std + DstSave ELSE z.std
                      r     == dt_add_seconds(dt, off)
                  IN  IF r = None THEN None
                      ELSE Some([the(r) EXCEPT !.tzinfo = tz])

\* tz.fromutc(dt): dt carries UTC wall-clock fields; the result carries the
\* zone's wall-clock fields with the fold set in the repeated hour
fromutc(tz, dt) ==
    IF tz = "UTC" THEN Some([dt EXCEPT !.tzinfo = "UTC"])
    ELSE LET z == ZoneTable(tz)
         IN  IF ~z.dst
             THEN LET r == dt_add_seconds(dt, z.std)
                  IN  IF r = None THEN None
                      ELSE Some([the(r) EXCEPT !.tzinfo = tz])
             ELSE LET u     == wall_soy(dt)
                      ts    == rule_wall(dt.year, z.start) - z.std
                      te    == rule_wall(dt.year, z.end) - (z.std + DstSave)
                      isdst == ts <= u /\ u < te
                      off   == IF isdst THEN z.std + DstSave ELSE z.std
                      fold  == IF te <= u /\ u < te + DstSave THEN 1 ELSE 0
                      r     == dt_add_seconds(dt, off)
                  IN  IF r = None THEN None
                      ELSE Some([the(r) EXCEPT !.tzinfo = tz, !.fold = fold])

\* datetime.astimezone(tz) of an aware datetime; None for OverflowError
astimezone(dt, tz) ==
    IF tz = dt.tzinfo THEN Some(dt)
    ELSE LET utc == dt_add_seconds(dt, 0 - utcoffset(dt))
         IN  IF utc = None THEN None
             ELSE fromutc(tz, the(utc))

\* strftime("%z"): sign, hours and minutes of the offset
strftime_z(dt) ==
    LET off == utcoffset(dt)
        mag == IF off < 0 THEN 0 - off ELSE off
    IN  [sign |-> IF off < 0 THEN "-" ELSE "+",
         hh |-> mag \div 3600, mm |-> (mag % 3600) \div 60]

\* datetime.timestamp() of an aware datetime, truncated by int()
unix_timestamp(dt) ==
    (toordinal(dt) - ymd2ord(1970, 1, 1)) * SecondsPerDay + sec_of_day(dt)
    - utcoffset(dt)

\* datetime.isoformat() of an aware datetime
isoformat(dt) ==
    [text |-> [strftime_datetime(dt) EXCEPT !.shape = "T"],
     microsecond |-> dt.microsecond, offset |-> strftime_z(dt)]

\* strftime("%A, %B %d, %Y at %I:%M %p")
strftime_human(dt) ==
    [A |-> strftime_A(dt), B |-> strftime_B(dt), d |-> dt.day, Y |-> dt.year,
     I |-> IF dt.hour % 12 = 0 THEN 12 ELSE dt.hour % 12,
     M |-> dt.minute, p |-> IF dt.hour < 12 THEN "AM" ELSE "PM"]

\* datetime._isoweek1monday
isoweek1monday(year) ==
    LET firstday     == ymd2ord(year, 1, 1)
        firstweekday == (firstday + 6) % 7
        week1monday  == firstday - firstweekday
    IN  IF firstweekday > 3 THEN week1monday + 7 ELSE week1monday

\* date.isocalendar(), as <<ISO year, ISO week, ISO weekday>>
isocalendar(dt) ==
    LET today == toordinal(dt)
        week  == (today - isoweek1monday(dt.year)) \div 7
        day   == (today - isoweek1monday(dt.year)) % 7
    IN  IF week < 0
        THEN LET w1 == isoweek1monday(dt.year - 1)
             IN  <<dt.year - 1, ((today - w1) \div 7) + 1, ((today - w1) % 7) + 1>>
        ELSE IF week >= 52 /\ today >= isoweek1monday(dt.year + 1)
             THEN <<dt.year + 1, 1, day + 1>>
             ELSE <<dt.year, week + 1, day + 1>>

(***************************************************************************)
(* The host: the zone datetime.now().astimezone() attaches.  The model     *)
(* runs the server on a host whose local zone is UTC.                      *)
(***************************************************************************)
LocalZone == "UTC"

\* datetime.now(zone): the clock reading n (naive, local) seen from zone
now_in(zone, n) ==
    the(astimezone([n EXCEPT !.tzinfo = LocalZone], zone))

(***************************************************************************)
(* Results                                                                 *)
(***************************************************************************)
Error(msg, arg) == [error |-> [msg |-> msg, arg |-> arg]]
Fault(exc) == [fault |-> exc]

IsError(r) == "error" \in DOMAIN r
IsFault(r) == "fault" \in DOMAIN r
IsSuccess(r) == ~IsError(r) /\ ~IsFault(r)

(***************************************************************************)
(* get_datetime                                                            *)
(***************************************************************************)
get_datetime_result(now, format) ==
    LET day_of_week == strftime_A(now)
    IN  IF format = Some("iso8601")
        THEN [day_of_week |-> day_of_week, iso8601 |-> isoformat(now)]
        ELSE IF format = Some("unix")
        THEN [day_of_week |-> day_of_week, unix_timestamp |-> unix_timestamp(now)]
        ELSE IF format = Some("human")
        THEN [day_of_week |-> day_of_week, human_readable |-> strftime_human(now)]
        ELSE [day_of_week |-> day_of_week,
              date |-> strftime_date(now),
              time |-> [H |-> now.hour, M |-> now.minute, S |-> now.second],
              timezone |-> now.tzinfo,
              utc_offset |-> strftime_z(now),
              iso8601 |-> isoformat(now),
              unix_timestamp |-> unix_timestamp(now),
              human_readable |-> strftime_human(now)]

get_datetime(tz, format, n) ==
    IF truthy_str(tz)
    THEN IF resolve_zone(the(tz)) = None
         THEN Error("Invalid timezone", the(tz))
         ELSE get_datetime_result(now_in(the(resolve_zone(the(tz))), n), format)
    ELSE get_datetime_result(now_in(LocalZone, n), format)

(***************************************************************************)
(* relative_time                                                           *)
(***************************************************************************)
relative_formats == <<"%Y-%m-%d", "%Y-%m-%dT%H:%M:%S", "%Y-%m-%d %H:%M:%S">>

\* is_future = total_seconds > 0
is_future_of(total_seconds) ==
    ~total_seconds.neg /\ (total_seconds.sec > 0 \/ total_seconds.us > 0)

\* abs_seconds = abs(total_seconds)
abs_of(total_seconds) == [sec |-> total_seconds.sec, us |-> total_seconds.us]

\* int(total_seconds): truncation toward zero
int_of(total_seconds) ==
    IF total_seconds.neg THEN 0 - total_seconds.sec ELSE total_seconds.sec

\* the components: int(abs_seconds // 86400) and so on
days_of(abs_seconds) == abs_seconds.sec \div 86400
hours_of(abs_seconds) == (abs_seconds.sec % 86400) \div 3600
minutes_of(abs_seconds) == (abs_seconds.sec % 3600) \div 60
seconds_of(abs_seconds) == abs_seconds.sec % 60

\* unit = "x" if value == 1 else "xs"; desc = f"{value} {unit}"
plural(value, unit) ==
    [value |-> value, unit |-> unit, plural |-> value # 1]

\* desc with the week tier starting after, not at, seven days
desc_week_after_seven(days, hours, minutes, seconds) ==
    IF days >= 365 THEN plural(days \div 365, "year")
    ELSE IF days >= 30 THEN plural(days \div 30, "month")
    ELSE IF days > 7 THEN plural(days \div 7, "week")
    ELSE IF days > 0 THEN plural(days, "day")
    ELSE IF hours > 0 THEN plural(hours, "hour")
    ELSE IF minutes > 0 THEN plural(minutes, "minute")
    ELSE plural(seconds, "second")

\* the if / elif chain that builds the description
desc(days, hours, minutes, seconds) ==
    IF days >= 365 THEN plural(days \div 365, "year")
    ELSE IF days >= 30 THEN plural(days \div 30, "month")
    ELSE IF days >= 7 THEN plural(days \div 7, "week")
    ELSE IF days > 0 THEN plural(days, "day")
    ELSE IF hours > 0 THEN plural(hours, "hour")
    ELSE IF minutes > 0 THEN plural(minutes, "minute")
    ELSE plural(seconds, "second")

\* relative with "now" kept for a delta of exactly zero only
relative_now_only_at_zero(d, is_future, abs_seconds) ==
    IF abs_seconds.sec = 0 /\ abs_seconds.us = 0 THEN [text |-> "now"]
    ELSE IF is_future THEN [text |-> "in", desc |-> d]
    ELSE [text |-> "ago", desc |-> d]

\* relative = f"in {desc}" if is_future else f"{desc} ago"; "now" below 1 s
relative(d, is_future, abs_seconds) ==
    IF abs_seconds.sec < 1 THEN [text |-> "now"]
    ELSE IF is_future THEN [text |-> "in", desc |-> d]
    ELSE [text |-> "ago", desc |-> d]

\* days_difference: the days field of the normalised timedelta
days_difference(delta) == delta.days

relative_time_result(date_str, reference, target, ref) ==
    LET delta         == dt_sub(target, ref)
        total_seconds == total_seconds_of(delta)
        is_future     == is_future_of(total_seconds)
        abs_seconds   == abs_of(total_seconds)
        d == desc(days_of(abs_seconds), hours_of(abs_seconds),
                  minutes_of(abs_seconds), seconds_of(abs_seconds))
    IN  [target |-> date_str,
         target_day_of_week |-> strftime_A(target),
         reference |-> IF truthy_text(reference) THEN reference ELSE Some("now"),
         relative |-> relative(d, is_future, abs_seconds),
         days_difference |-> days_difference(delta),
         total_seconds |-> int_of(total_seconds)]

relative_time(date_str, reference, n) ==
    LET target == parse_formats(date_str, relative_formats, 1)
    IN  IF target = None
        THEN Error("Invalid date format", date_str)
        ELSE IF truthy_text(reference)
        THEN LET ref == parse_formats(the(reference), relative_formats, 1)
             IN  IF ref = None
                 THEN Error("Invalid reference date format", the(reference))
                 ELSE relative_time_result(date_str, reference, the(target), the(ref))
        ELSE relative_time_result(date_str, reference, the(target), n)

\* whether the call reaches ref = datetime.now()
relative_time_reads_clock(date_str, reference) ==
    /\ parse_formats(date_str, relative_formats, 1) # None
    /\ ~truthy_text(reference)

(***************************************************************************)
(* days_in_month                                                           *)
(***************************************************************************)
\* year = year or now.year
year_or_now(year, n) == IF truthy_int(year) THEN the(year) ELSE n.year

\* month = month or now.month
month_or_now(month, n) == IF truthy_int(month) THEN the(month) ELSE n.month

\* is_leap_year without the century rule
is_leap_year_every_fourth(year) == year % 4 = 0

\* year % 4 == 0 and (year % 100 != 0 or year % 400 == 0)
is_leap_year(year) == year % 4 = 0 /\ (year % 100 # 0 \/ year % 400 = 0)

days_in_month(year_arg, month_arg, n) ==
    LET year  == year_or_now(year_arg, n)
        month == month_or_now(month_arg, n)
    IN  IF ~(1 <= month /\ month <= 12)
        THEN Error("Invalid month", month)
        ELSE LET num_days == monthrange_days(year, month)
             IN  IF ~valid_date(year, month, 1)
                 THEN Fault("ValueError")
                 ELSE LET first_day == datetime(year, month, 1, 0, 0, 0, 0, "naive", 0)
                          last_day  == datetime(year, month, num_days, 0, 0, 0, 0, "naive", 0)
                      IN  [year |-> year,
                           month |-> month,
                           month_name |-> strftime_B(first_day),
                           days_in_month |-> num_days,
                           first_day |-> [date |-> strftime_date(first_day),
                                          day_of_week |-> strftime_A(first_day)],
                           last_day |-> [date |-> strftime_date(last_day),
                                         day_of_week |-> strftime_A(last_day)],
                           is_leap_year |-> is_leap_year(year)]

(***************************************************************************)
(* convert_time                                                            *)
(***************************************************************************)
convert_formats == <<"%Y-%m-%d %H:%M:%S", "%Y-%m-%dT%H:%M:%S", "%Y-%m-%d">>

\* one side of the result
zone_view(dt, tz) ==
    [day_of_week |-> strftime_A(dt),
     datetime |-> strftime_datetime(dt),
     timezone |-> tz,
     utc_offset |-> strftime_z(dt)]

\* source_dt = dt.replace(tzinfo=source_zone)
replace_tzinfo(dt, zone) == [dt EXCEPT !.tzinfo = zone]

convert_time(time_str, from_tz, to_tz) ==
    LET dt == parse_formats(time_str, convert_formats, 1)
    IN  IF dt = None
        THEN Error("Invalid time format", time_str)
        ELSE IF resolve_zone(from_tz) = None
        THEN Error("Invalid timezone", from_tz)
        ELSE IF resolve_zone(to_tz) = None
        THEN Error("Invalid timezone", to_tz)
        ELSE LET source_dt == replace_tzinfo(the(dt), the(resolve_zone(from_tz)))
                 target_dt == astimezone(source_dt, the(resolve_zone(to_tz)))
             IN  IF target_dt = None
                 THEN Fault("OverflowError")
                 ELSE [from |-> zone_view(source_dt, from_tz),
                       to |-> zone_view(the(target_dt), to_tz)]

(***************************************************************************)
(* get_week_year                                                           *)
(***************************************************************************)
\* (datetime(dt.year, 12, 31) - dt).days
days_remaining_in_year(dt) ==
    dt_sub(datetime(dt.year, 12, 31, 0, 0, 0, 0, "naive", 0), dt).days

get_week_year_result(dt) ==
    LET iso_cal == isocalendar(dt)
    IN  [date |-> strftime_date(dt),
         day_of_week |-> strftime_A(dt),
         day_of_week_number |-> isoweekday(dt),
         week_number |-> ((tm_yday(dt) - 1) \div 7) + 1,
         iso_week |-> iso_cal[2],
         iso_year |-> iso_cal[1],
         day_of_year |-> tm_yday(dt),
         days_remaining_in_year |-> days_remaining_in_year(dt),
         is_weekend |-> isoweekday(dt) >= 6,
         quarter |-> ((dt.month - 1) \div 3) + 1]

get_week_year(date_str, n) ==
    IF truthy_text(date_str)
    THEN LET dt == strptime(the(date_str), "%Y-%m-%d")
         IN  IF dt = None
             THEN Error("Invalid date format", the(date_str))
             ELSE get_week_year_result(the(dt))
    ELSE get_week_year_result(n)

(***************************************************************************)
(* Inputs: the texts, zone names, integers and clock readings the callers  *)
(* of the model send.                                                      *)
(***************************************************************************)
Text(shape, y, mo, d, H, M, S) ==
    [shape |-> shape, y |-> y, mo |-> mo, d |-> d, H |-> H, M |-> M, S |-> S]

EmptyText == Text("empty", 0, 0, 0, 0, 0, 0)
GarbageText == Text("garbage", 0, 0, 0, 0, 0, 0)

Years == FirstYear..LastYear

\* what datetime.now() may return: a naive local datetime with microseconds
ClockInstants ==
    { datetime(2025, 1, 1, 0, 0, 0, 500000, "naive", 0),
      datetime(2025, 1, 7, 23, 59, 59, 750000, "naive", 0),
      datetime(2025, 6, 15, 12, 0, 0, 0, "naive", 0),
      datetime(2025, 12, 31, 0, 0, 0, 0, "naive", 0),
      datetime(2025, 12, 31, 12, 0, 0, 250000, "naive", 0) }

\* days of the month used in the texts of relative_time: the ends of the
\* months and the days a week or a month away from the first
TierDays == {1, 2, 7, 8, 28, 29, 30, 31}

\* times of day, <<24, 0, 0>> being no time
TierTimes ==
    { <<0, 0, 0>>, <<0, 0, 1>>, <<0, 1, 0>>, <<1, 0, 0>>, <<23, 59, 59>>,
      <<24, 0, 0>> }

\* month 13 and the days past a month's end make texts that do not parse
TargetTexts ==
    { Text("date", y, mo, d, 0, 0, 0) : y \in Years, mo \in 1..13, d \in TierDays }
    \cup { Text("T", y, mo, d, t[1], t[2], t[3]) :
             y \in Years, mo \in 1..13, d \in TierDays, t \in TierTimes }
    \cup { Text("space", 2025, 1, 8, 0, 0, 0), GarbageText, EmptyText }

ReferenceArgs ==
    { None, Some(EmptyText), Some(GarbageText),
      Some(Text("date", 2025, 1, 1, 0, 0, 0)),
      Some(Text("T", 2024, 1, 1, 0, 0, 1)),
      Some(Text("space", 2025, 6, 15, 12, 0, 0)),
      Some(Text("date", 2025, 2, 30, 0, 0, 0)) }

YearArgs ==
    { None } \cup { Some(y) : y \in Years \cup {0 - 1, 0, 1, 1900, 2000, 2100, 9999, 10000} }

MonthArgs == { None } \cup { Some(m) : m \in (0 - 1)..14 }

ZoneArgs == { "UTC", "Asia/Tokyo", "America/New_York", "Europe/London",
              "Mars/Phobos", "" }

ZonePairs ==
    { <<a, b>> : a \in {"UTC"} \cup ZoneNames, b \in {"UTC"} \cup ZoneNames }
    \cup { <<"Mars/Phobos", "UTC">>, <<"UTC", "Mars/Phobos">>, <<"", "UTC">> }

\* the days around the daylight-saving changes and the turn of the year
ConvertMonths == {1, 3, 10, 11, 12}
ConvertDays == (1..14) \cup (25..31)
ConvertTimes ==
    { <<h, m, 0>> : h \in {0, 1, 2, 3, 12, 23}, m \in {0, 30} }

ConvertTexts ==
    { Text("space", y, mo, d, t[1], t[2], t[3]) :
        y \in (LastYear - 1)..LastYear, mo \in ConvertMonths, d \in ConvertDays,
        t \in ConvertTimes }
    \cup { Text("space", 9999, 12, 31, t[1], t[2], t[3]) : t \in ConvertTimes }
    \cup { Text("T", 2025, 3, 9, 2, 30, 0), Text("date", 2025, 11, 2, 0, 0, 0),
           Text("space", 2025, 13, 1, 10, 0, 0), GarbageText, EmptyText }

WeekArgs ==
    { None, Some(EmptyText), Some(GarbageText),
      Some(Text("T", 2025, 1, 1, 0, 0, 0)) }
    \cup { Some(Text("date", y, mo, d, 0, 0, 0)) :
             y \in Years, mo \in 1..13, d \in 1..31 }

FormatArgs == { None, Some("iso8601"), Some("unix"), Some("human"), Some("full") }

TzArgs == { None } \cup { Some(z) : z \in ZoneArgs }

(***************************************************************************)
(* The server: one request at a time.  pc = "idle" between requests; a     *)
(* handler runs to its return in one step and leaves the request, the      *)
(* clock reading it took and its result; Return hands the result back.     *)
(***************************************************************************)
NoCall == [op |-> "none"]
NoResult == [none |-> TRUE]

Init ==
    /\ pc = "idle"
    /\ call = NoCall
    /\ clock = None
    /\ result = NoResult

GetDatetime ==
    /\ pc = "idle"
    /\ \E tz \in TzArgs, format \in FormatArgs, n \in ClockInstants :
         /\ call' = [op |-> "get_datetime", tz |-> tz, format |-> format]
         /\ IF truthy_str(tz) /\ resolve_zone(the(tz)) = None
            THEN clock' = None
            ELSE clock' = Some(n)
         /\ result' = get_datetime(tz, format, n)
    /\ pc' = "done"

RelativeTime ==
    /\ pc = "idle"
    /\ \E date_str \in TargetTexts, reference \in ReferenceArgs, n \in ClockInstants :
         /\ call' = [op |-> "relative_time", date_str |-> date_str,
                     reference |-> reference]
         /\ IF relative_time_reads_clock(date_str, reference)
            THEN clock' = Some(n)
            ELSE clock' = None
         /\ result' = relative_time(date_str, reference, n)
    /\ pc' = "done"

DaysInMonth ==
    /\ pc = "idle"
    /\ \E year \in YearArgs, month \in MonthArgs, n \in ClockInstants :
         /\ call' = [op |-> "days_in_month", year |-> year, month |-> month]
         /\ clock' = Some(n)
         /\ result' = days_in_month(year, month, n)
    /\ pc' = "done"

ConvertTime ==
    /\ pc = "idle"
    /\ \E time_str \in ConvertTexts, zones \in ZonePairs :
         /\ call' = [op |-> "convert_time", time_str |-> time_str,
                     from_tz |-> zones[1], to_tz |-> zones[2], back_of |-> None]
         /\ result' = convert_time(time_str, zones[1], zones[2])
    /\ clock' = None
    /\ pc' = "done"

\* the caller of a successful conversion sends its 'to' datetime back, from
\* the target zone to the source zone, and keeps the first exchange
ConvertBack ==
    /\ pc = "done"
    /\ call.op = "convert_time"
    /\ call.back_of = None
    /\ IsSuccess(result)
    /\ call' = [op |-> "convert_time", time_str |-> result.to.datetime,
                from_tz |-> call.to_tz, to_tz |-> call.from_tz,
                back_of |-> Some([call |-> call, result |-> result])]
    /\ result' = convert_time(result.to.datetime, call.to_tz, call.from_tz)
    /\ clock' = None
    /\ pc' = "done"

GetWeekYear ==
    /\ pc = "idle"
    /\ \E date_str \in WeekArgs, n \in ClockInstants :
         /\ call' = [op |-> "get_week_year", date_str |-> date_str]
         /\ IF truthy_text(date_str)
            THEN clock' = None
            ELSE clock' = Some(n)
         /\ result' = get_week_year(date_str, n)
    /\ pc' = "done"

Return ==
    /\ pc = "done"
    /\ pc' = "idle"
    /\ call' = NoCall
    /\ clock' = None
    /\ result' = NoResult

Next ==
    \/ GetDatetime
    \/ RelativeTime
    \/ DaysInMonth
    \/ ConvertTime
    \/ ConvertBack
    \/ GetWeekYear
    \/ Return

Spec == Init /\ [][Next]_vars

(***************************************************************************)
(* Properties                                                              *)
(***************************************************************************)
RelativeDone ==
    pc = "done" /\ call.op = "relative_time" /\ IsSuccess(result)

\* the two instants of a successful relative_time call, read from the request
\* and the clock reading
TargetInstant == the(parse_formats(call.date_str, relative_formats, 1))
ReferenceInstant ==
    IF clock # None THEN the(clock)
    ELSE the(parse_formats(the(call.reference), relative_formats, 1))

\* target - reference = DeltaWhole seconds + DeltaMicros microseconds, the
\* two parts subtracted field by field
DeltaWhole ==
    (toordinal(TargetInstant) - toordinal(ReferenceInstant)) * 86400
    + (sec_of_day(TargetInstant) - sec_of_day(ReferenceInstant))
DeltaMicros == TargetInstant.microsecond - ReferenceInstant.microsecond

\* target - reference >= 1 second, <= -1 second
AtLeastOneSecondAhead ==
    IF DeltaMicros >= 0 THEN DeltaWhole >= 1 ELSE DeltaWhole >= 2
AtLeastOneSecondBehind ==
    IF DeltaMicros <= 0 THEN DeltaWhole <= 0 - 1 ELSE DeltaWhole <= 0 - 2

\* floor(|target - reference|) in seconds
AbsWholeSeconds ==
    IF DeltaWhole > 0 \/ (DeltaWhole = 0 /\ DeltaMicros >= 0)
    THEN IF DeltaMicros < 0 THEN DeltaWhole - 1 ELSE DeltaWhole
    ELSE IF DeltaMicros > 0 THEN (0 - DeltaWhole) - 1 ELSE 0 - DeltaWhole

WholeDays == AbsWholeSeconds \div 86400

\* the tier the whole-day count asks for, as <<value, unit>>
ExpectedTier ==
    IF WholeDays >= 365 THEN <<WholeDays \div 365, "year">>
    ELSE IF WholeDays >= 30 THEN <<WholeDays \div 30, "month">>
    ELSE IF WholeDays >= 7 THEN <<WholeDays \div 7, "week">>
    ELSE IF WholeDays >= 1 THEN <<WholeDays, "day">>
    ELSE IF AbsWholeSeconds \div 3600 > 0 THEN <<AbsWholeSeconds \div 3600, "hour">>
    ELSE IF AbsWholeSeconds \div 60 > 0 THEN <<AbsWholeSeconds \div 60, "minute">>
    ELSE <<AbsWholeSeconds, "second">>

ShownTier == <<result.relative.desc.value, result.relative.desc.unit>>

\* C1: for two instants at least one second apart, relative_time renders the
\* single tier chosen from the whole-day count d: years d/365 when d >= 365,
\* else months d/30 when d >= 30, else weeks d/7 when d >= 7, else days when
\* d >= 1, else hours, minutes or seconds; exactly 7 days is "1 week" and
\* 6 days 23:59:59 is "6 days".
C1_TierChoice ==
    (RelativeDone /\ AbsWholeSeconds >= 1) =>
        /\ "desc" \in DOMAIN result.relative
        /\ ShownTier = ExpectedTier
        /\ (AbsWholeSeconds = 7 * 86400 => ShownTier = <<1, "week">>)
        /\ (AbsWholeSeconds = 7 * 86400 - 1 => ShownTier = <<6, "day">>)

C1_Witness ==
    /\ RelativeDone
    /\ call.reference = Some(Text("date", 2025, 1, 1, 0, 0, 0))
    /\ call.date_str = Text("T", 2025, 1, 7, 23, 59, 59)
    /\ result.relative = [text |-> "in", desc |-> plural(6, "day")]

\* C2: days_difference is the signed delta in seconds divided by 86400 and
\* truncated toward zero: 0 whenever the instants are less than a day apart,
\* and in absolute value the whole-day count that chose the tier.
C2_DaysTruncated ==
    RelativeDone =>
        /\ (AbsWholeSeconds < 86400 => result.days_difference = 0)
        /\ result.days_difference =
               (IF DeltaWhole < 0 \/ (DeltaWhole = 0 /\ DeltaMicros < 0)
                THEN 0 - WholeDays ELSE WholeDays)

DaysInMonthDone == pc = "done" /\ call.op = "days_in_month"

\* C3: a month outside 1..12 passed explicitly to days_in_month, 0 and the
\* negative values included, gives the error mapping whatever the year.
C3_MonthOutOfRangeIsError ==
    (DaysInMonthDone /\ call.month # None /\ the(call.month) \notin 1..12) =>
        IsError(result)

\* C4: every call of the five tools returns a success mapping or the error
\* mapping; no call ends in an uncaught exception.
C4_NoFault ==
    pc = "done" => ~IsFault(result)

ConvertDone == pc = "done" /\ call.op = "convert_time"
BackDone == ConvertDone /\ call.back_of # None

FirstCall == the(call.back_of).call
FirstResult == the(call.back_of).result

WallFields(text) == <<text.y, text.mo, text.d, text.H, text.M, text.S>>

SkippedIn(text, tz) ==
    /\ tz \in ZoneNames
    /\ ZoneTable(tz).dst
    /\ LET w == (days_before_month(text.y, text.mo) + text.d - 1) * 86400
                + text.H * 3600 + text.M * 60 + text.S
           g == rule_wall(text.y, ZoneTable(tz).start)
       IN  g <= w /\ w < g + 3600

\* the wall-clock time of a text happens twice in the zone, at the change
\* back to standard time
RepeatedIn(text, tz) ==
    /\ tz \in ZoneNames
    /\ ZoneTable(tz).dst
    /\ LET w == (days_before_month(text.y, text.mo) + text.d - 1) * 86400
                + text.H * 3600 + text.M * 60 + text.S
           f == rule_wall(text.y, ZoneTable(tz).end)
       IN  f - 3600 <= w /\ w < f

OffsetSeconds(z) ==
    (IF z.sign = "-" THEN 0 - 1 ELSE 1) * (z.hh * 3600 + z.mm * 60)

\* the first conversion landed on the second occurrence of a repeated hour
\* of the target zone: the time is repeated and carries the standard offset
SecondOccurrence(view, tz) ==
    /\ RepeatedIn(view.datetime, tz)
    /\ OffsetSeconds(view.utc_offset) = ZoneTable(tz).std

WeekDone == pc = "done" /\ call.op = "get_week_year" /\ IsSuccess(result)

\* C6: days_remaining_in_year is the number of calendar days from the
\* reported date to December 31 of its year, with the date given or taken
\* from the clock: never negative, 0 on December 31, and day_of_year plus
\* days_remaining_in_year is the length of the year.
C6_DaysRemaining ==
    WeekDone =>
        /\ result.days_remaining_in_year >= 0
        /\ (result.date.mo = 12 /\ result.date.d = 31 =>
                result.days_remaining_in_year = 0)
        /\ result.day_of_year + result.days_remaining_in_year =
               (IF isleap(result.date.y) THEN 366 ELSE 365)

\* C7: the phrase is "in ..." when the target is at least a second after the
\* reference, "... ago" when at least a second before, and "now" exactly
\* when they are less than a second apart; no phrase shows the value 0.
C7_Phrase ==
    RelativeDone =>
        /\ (result.relative.text = "in") = AtLeastOneSecondAhead
        /\ (result.relative.text = "ago") = AtLeastOneSecondBehind
        /\ (result.relative.text = "now") = (AbsWholeSeconds < 1)
        /\ ("desc" \in DOMAIN result.relative => result.relative.desc.value # 0)
        /\ (DeltaWhole = 1 /\ DeltaMicros = 0 =>
                result.relative = [text |-> "in", desc |-> plural(1, "second")])
        /\ (DeltaWhole = 0 - 1 /\ DeltaMicros = 0 =>
                result.relative = [text |-> "ago", desc |-> plural(1, "second")])

\* the reference is the clock, half a second after the target
C7_Witness ==
    /\ RelativeDone
    /\ clock # None
    /\ DeltaWhole = 0 /\ DeltaMicros < 0
    /\ result.relative = [text |-> "now"]

GregorianDays(year, month) ==
    IF month \in {4, 6, 9, 11} THEN 30
    ELSE IF month # 2 THEN 31
    ELSE IF year % 4 = 0 /\ (year % 100 # 0 \/ year % 400 = 0) THEN 29
    ELSE 28

\* C8: for a year in the supported range and a month in 1..12, days_in_month
\* reports the Gregorian number of days; is_leap_year is true iff the year is
\* divisible by 4 and not by 100, or by 400, which is iff February is
\* reported with 29 days; the last day's day of the month is days_in_month.
C8_Gregorian ==
    (DaysInMonthDone /\ IsSuccess(result)) =>
        /\ result.days_in_month = GregorianDays(result.year, result.month)
        /\ result.is_leap_year =
               (result.year % 4 = 0
                /\ (result.year % 100 # 0 \/ result.year % 400 = 0))
        /\ (result.month = 2 =>
                (result.is_leap_year = (result.days_in_month = 29)))
        /\ result.last_day.date.d = result.days_in_month
        /\ (call.year # None /\ the(call.year) \in MINYEAR..MAXYEAR =>
                result.year = the(call.year))
        /\ (call.month # None /\ the(call.month) \in 1..12 =>
                result.month = the(call.month))

\* February of a century year that is no leap year
C8_Witness ==
    /\ DaysInMonthDone
    /\ call.year = Some(1900) /\ call.month = Some(2)
    /\ IsSuccess(result)
    /\ result.days_in_month = 28 /\ ~result.is_leap_year

\* C9: a success result of relative_time carries the day of the week of the
\* target and of the reference, and the echoes of both inputs.
C9_BothWeekdays ==
    RelativeDone =>
        /\ "target_day_of_week" \in DOMAIN result
        /\ "reference_day_of_week" \in DOMAIN result
        /\ "target" \in DOMAIN result
        /\ "reference" \in DOMAIN result

\* the instant a side of a conversion denotes: its datetime minus its UTC
\* offset, as days and seconds of the day
ViewInstant(view) ==
    LET t == view.datetime
        x == timedelta(ymd2ord(t.y, t.mo, t.d),
                       t.H * 3600 + t.M * 60 + t.S - OffsetSeconds(view.utc_offset), 0)
    IN  <<x.days, x.seconds>>

\* C10: in a success result of convert_time 'from' and 'to' denote the same
\* instant, also when the source time falls in a gap or an overlap of the
\* source zone; with equal zones the datetimes and the offsets are equal.
C10_SameInstant ==
    (ConvertDone /\ IsSuccess(result)) =>
        /\ ViewInstant(result.from) = ViewInstant(result.to)
        /\ (call.from_tz = call.to_tz =>
                /\ result.from.datetime = result.to.datetime
                /\ result.from.utc_offset = result.to.utc_offset)

\* a source time in the gap of the source zone
C10_Witness ==
    /\ ConvertDone
    /\ call.time_str = Text("space", 2025, 3, 9, 2, 30, 0)
    /\ call.from_tz = "America/New_York"
    /\ call.to_tz = "UTC"
    /\ IsSuccess(result)
    /\ result.to.datetime = Text("space", 2025, 3, 9, 7, 30, 0)

====
